---- MODULE Spec2Model ----
(***************************************************************************)
(* disGo: fan a list of commands out over a pool of hosts, retrying each   *)
(* command on the next host of a random order until one host succeeds.     *)
(* The repository holds two variants of the program: src/main.go and the   *)
(* older src/unnamed/part_000.  Spec is main.go, SpecLegacy is part_000;   *)
(* `variant` says which of the two a behaviour runs.                       *)
(***************************************************************************)
EXTENDS Integers, Sequences, FiniteSets, TLC

\* Largest number of lines of the commands file that is enumerated.
MaxCmds == 2
\* Largest number of lines of the hosts file that is enumerated.
MaxHosts == 2
\* Largest number of attempts a run may make, len(commands) * len(hosts), that is
\* enumerated.
MaxAttempts == 4
\* Largest number of lines one run of a remote command writes to its output file.
MaxOutput == 1

VARIABLES
    variant,        \* "main" (src/main.go) or "part_000" (src/unnamed/part_000)
    args,           \* os.Args[1:]
    cmdsFile,       \* the lines of the file at cmdsFilePath
    hostsFile,      \* the lines of the file at hostsFilePath
    commands,       \* main: commands
    hosts,          \* main: hosts
    proc,           \* the process: "running", "exited" (main returned), "panicked"
    mpc,            \* main's position: "flags", "usage", "readHosts", "spawn",
                    \* "wait", "done"
    mi,             \* main: index i of the launch loop
    numCommands,    \* main: numCommands
    numSuccessful,  \* main: numSuccessful
    left,           \* main: left, the number of results received
    summary,        \* the arguments of main's last debug line, <<>> before it
    dpc,            \* per command id: position of its dispatch goroutine
    order,          \* dispatch: order
    pos,            \* dispatch: how many elements of order the range loop consumed
    attempts,       \* dispatch: attempts
    path,           \* dispatch: attemptOutputPath
    fs,             \* the working directory: file name -> the file, which is its
                    \* lines (data) and whether this run or an earlier one made it
    tried,          \* per command id: the attempts begun, in order; the outcome of
                    \* one is "running", "ok", "failed", or "uncreated" (os.Create
                    \* failed), and written counts the lines its ssh wrote
    renames,        \* per command id: the os.Rename calls made, in order
    sent            \* per command id: the values its dispatch sent on doneChan

vars == <<variant, args, cmdsFile, hostsFile, commands, hosts, proc, mpc, mi,
          numCommands, numSuccessful, left, summary, dpc, order, pos, attempts,
          path, fs, tried, renames, sent>>

inputVars == <<variant, args, cmdsFile, hostsFile>>
mainVars == <<commands, hosts, mpc, mi, numCommands, numSuccessful, left, summary>>

----------------------------------------------------------------------------
\* Formatting of integers with %v, and the artifact names built from them.

Digit(d) ==
    CASE d = 0 -> "0" [] d = 1 -> "1" [] d = 2 -> "2" [] d = 3 -> "3"
      [] d = 4 -> "4" [] d = 5 -> "5" [] d = 6 -> "6" [] d = 7 -> "7"
      [] d = 8 -> "8" [] d = 9 -> "9"

RECURSIVE Itoa(_)
Itoa(n) == IF n < 10 THEN Digit(n) ELSE Itoa(n \div 10) \o Digit(n % 10)

\* fmt.Sprintf("cmd_%v-attempt%v.log", id, attempts) in main.go,
\* fmt.Sprintf("cmd%v_attempt%v.log", id, attempts) in part_000.
AttemptPath(v, id, n) ==
    IF v = "main"
    THEN "cmd_" \o Itoa(id) \o "-attempt" \o Itoa(n) \o ".log"
    ELSE "cmd" \o Itoa(id) \o "_attempt" \o Itoa(n) \o ".log"

\* fmt.Sprintf("cmd_%v-final.log", id); only main.go promotes.
FinalPath(id) == "cmd_" \o Itoa(id) \o "-final.log"

----------------------------------------------------------------------------
\* rand.Perm(n): m[i] = m[j]; m[j] = i for i = 0..n-1, j = rand.Intn(i+1).
\* The results are kept 1-indexed sequences of the 0-based host indices.

PermStep(m, i, j) ==
    [x \in 1..(i + 1) |-> IF x = j + 1 THEN i
                          ELSE IF x = i + 1 THEN m[j + 1]
                          ELSE m[x]]

RECURSIVE PermUpTo(_)
PermUpTo(n) ==
    IF n = 0 THEN {<<>>}
    ELSE {PermStep(m, n - 1, j) : m \in PermUpTo(n - 1), j \in 0..(n - 1)}

\* A draw of a host index per iteration, with replacement.
PermWithRepeats(n) == [1..n -> 0..(n - 1)]

Perm(n) == PermUpTo(n)

----------------------------------------------------------------------------
\* The inputs of a run: the arguments, the two files, the working directory.

CommandLine(i) == "cmd" \o Itoa(i)
HostLine(i) == "host" \o Itoa(i)

\* The ways the n lines of a hosts file can repeat one another: line i is a copy
\* of an earlier line or the next new host.  readLines keeps every line it scans,
\* repeated ones too; how a host is called is nothing the program looks at, so one
\* naming per pattern is kept.
Repeats(n) ==
    {g \in [1..n -> 0..(n - 1)] :
        \A i \in 1..n : \A k \in 0..(g[i] - 1) : \E j \in 1..(i - 1) : g[j] = k}

\* The command lines with which main was started: none, or the word help.
ArgLists == {<<>>, <<"help">>}

\* A line that an earlier run wrote to a file of the working directory.
Leftover == [cmd |-> "earlier run", host |-> "earlier run", run |-> 0, line |-> 0]

\* The files an earlier run may have left: an empty one, and one with a line.
LeftoverFiles ==
    {[from |-> "earlier run", data |-> d] : d \in {<<>>, <<Leftover>>}}

\* The working directories a run may start in: any of the names the first
\* command will use may be there already, empty or not.
Directories(v) ==
    UNION {[S -> LeftoverFiles] : S \in SUBSET {FinalPath(0), AttemptPath(v, 0, 0)}}

Ids == 0..(Len(commands) - 1)

\* The k-th line that run n of command id on host writes to its output file
\* (stdout and stderr of ssh both go there).
Output(id, host, n, k) ==
    [cmd |-> commands[id + 1], host |-> host, run |-> n, line |-> k]

\* The state of either program when main starts; v names the program.
Boot(v) ==
    /\ variant = v
    /\ args \in ArgLists
    /\ \E n \in 0..MaxCmds, h \in 0..MaxHosts :
        /\ n * h <= MaxAttempts
        /\ cmdsFile = [i \in 1..n |-> CommandLine(i - 1)]
        /\ \E g \in Repeats(h) : hostsFile = [i \in 1..h |-> HostLine(g[i])]
    /\ fs \in Directories(v)
    /\ commands = <<>>
    /\ hosts = <<>>
    /\ proc = "running"
    /\ mpc = "flags"
    /\ mi = 0
    /\ numCommands = 0
    /\ numSuccessful = 0
    /\ left = 0
    /\ summary = <<>>
    /\ dpc = [c \in 0..(Len(cmdsFile) - 1) |-> "idle"]
    /\ order = [c \in 0..(Len(cmdsFile) - 1) |-> <<>>]
    /\ pos = [c \in 0..(Len(cmdsFile) - 1) |-> 0]
    /\ attempts = [c \in 0..(Len(cmdsFile) - 1) |-> 0]
    /\ path = [c \in 0..(Len(cmdsFile) - 1) |-> ""]
    /\ tried = [c \in 0..(Len(cmdsFile) - 1) |-> <<>>]
    /\ renames = [c \in 0..(Len(cmdsFile) - 1) |-> <<>>]
    /\ sent = [c \in 0..(Len(cmdsFile) - 1) |-> <<>>]

\* src/main.go
Init == Boot("main")

\* src/unnamed/part_000
InitLegacy == Boot("part_000")

----------------------------------------------------------------------------
\* The working directory.

\* os.Create: create the file, or truncate it when it exists; either way the name
\* then holds an empty file that this run made.
CreateFile(f, p) ==
    [q \in DOMAIN f \cup {p} |->
        IF q = p THEN [from |-> "this run", data |-> <<>>] ELSE f[q]]

\* A write through the descriptor os.Create returned.
WriteFile(f, p, out) ==
    [q \in DOMAIN f |-> IF q = p THEN [f[q] EXCEPT !.data = Append(@, out)] ELSE f[q]]

\* A copy to the new name that leaves the old name in place.
CopyFile(f, old, new) ==
    [q \in DOMAIN f \cup {new} |-> IF q = new THEN f[old] ELSE f[q]]

\* os.Rename: the old name goes, the new name holds the file (replacing any).
RenameFile(f, old, new) ==
    [q \in (DOMAIN f \ {old}) \cup {new} |-> IF q = new THEN f[old] ELSE f[q]]

----------------------------------------------------------------------------
\* main

\* if len(os.Args) > 1 && os.Args[1] == "help" { flag.Usage(); return }
Usage ==
    /\ proc = "running" /\ mpc = "flags"
    /\ Len(args) > 0 /\ args[1] = "help"
    /\ mpc' = "usage"
    /\ proc' = "exited"
    /\ UNCHANGED <<inputVars, commands, hosts, mi, numCommands, numSuccessful, left,
                   summary, dpc, order, pos, attempts, path, fs, tried, renames, sent>>

\* commands, err := readLines(cmdsFilePath); if err != nil { panic(err) }
ReadCommands ==
    /\ proc = "running" /\ mpc = "flags"
    /\ ~(Len(args) > 0 /\ args[1] = "help")
    /\ \E read \in BOOLEAN :
        IF read
        THEN /\ commands' = cmdsFile
             /\ mpc' = "readHosts"
             /\ proc' = proc
        ELSE /\ proc' = "panicked"
             /\ UNCHANGED <<commands, mpc>>
    /\ UNCHANGED <<inputVars, hosts, mi, numCommands, numSuccessful, left, summary,
                   dpc, order, pos, attempts, path, fs, tried, renames, sent>>

\* hosts, err := readLines(hostsFilePath); if err != nil { panic(err) }
ReadHosts ==
    /\ proc = "running" /\ mpc = "readHosts"
    /\ \E read \in BOOLEAN :
        IF read
        THEN /\ hosts' = hostsFile
             /\ mpc' = "spawn"
             /\ proc' = proc
        ELSE /\ proc' = "panicked"
             /\ UNCHANGED <<hosts, mpc>>
    /\ UNCHANGED <<inputVars, commands, mi, numCommands, numSuccessful, left, summary,
                   dpc, order, pos, attempts, path, fs, tried, renames, sent>>

\* A launch loop that waits for the command launched before to return.
SpawnOneAtATime ==
    /\ proc = "running" /\ mpc = "spawn" /\ mi < Len(commands)
    /\ mi > 0 => dpc[mi - 1] = "returned"
    /\ dpc' = [dpc EXCEPT ![mi] = "start"]
    /\ mi' = mi + 1
    /\ UNCHANGED <<inputVars, commands, hosts, proc, mpc, numCommands, numSuccessful,
                   left, summary, order, pos, attempts, path, fs, tried, renames, sent>>

\* go dispatch(i, cmd, hosts, doneChan), for i, cmd := range commands
Spawn ==
    /\ proc = "running" /\ mpc = "spawn" /\ mi < Len(commands)
    /\ dpc' = [dpc EXCEPT ![mi] = "start"]
    /\ mi' = mi + 1
    /\ UNCHANGED <<inputVars, commands, hosts, proc, mpc, numCommands, numSuccessful,
                   left, summary, order, pos, attempts, path, fs, tried, renames, sent>>

\* The launch loop is over: numCommands := len(commands); numSuccessful := 0; left := 0
StartWait ==
    /\ proc = "running" /\ mpc = "spawn" /\ mi = Len(commands)
    /\ mpc' = "wait"
    /\ numCommands' = Len(commands)
    /\ numSuccessful' = 0
    /\ left' = 0
    /\ UNCHANGED <<inputVars, commands, hosts, proc, mi, summary, dpc, order, pos,
                   attempts, path, fs, tried, renames, sent>>

\* Every received result counted, whatever its value.
CountedAll(v, b) == IF v = "main" THEN 1 ELSE 0

\* The value main adds up for a received result: main.go counts the true ones,
\* part_000 drops the value.
Counted(v, b) == IF v = "main" /\ b THEN 1 ELSE 0

\* The receive loop stopping one result early.
WaitingButLast(l, n) == l < n - 1

\* for left := 0; left < numCommands; left++
Waiting(l, n) == l < n

\* A send of true that is not followed by return: the range loop goes on.
AfterSendFallThrough(b) == IF b THEN "loop" ELSE "returned"

\* dispatch after its send: doneChan <- true; return, and doneChan <- false as the
\* last statement.
AfterSend(b) == "returned"

\* doneChan is unbuffered: the send of dispatch c and main's receive are one step.
\* dispatch: doneChan <- b; return.  main: if <-doneChan { numSuccessful++ }; left++
Recv(c) ==
    /\ proc = "running" /\ mpc = "wait" /\ Waiting(left, numCommands)
    /\ dpc[c] \in {"sendTrue", "sendFalse"}
    /\ LET b == (dpc[c] = "sendTrue") IN
        /\ sent' = [sent EXCEPT ![c] = Append(@, b)]
        /\ numSuccessful' = numSuccessful + Counted(variant, b)
    /\ left' = left + 1
    /\ dpc' = [dpc EXCEPT ![c] = AfterSend(dpc[c] = "sendTrue")]
    /\ UNCHANGED <<inputVars, commands, hosts, proc, mpc, mi, numCommands, summary,
                   order, pos, attempts, path, fs, tried, renames>>

\* FAILED printed as the total, not as the difference.
SummaryLineNoDifference(v, succ, total) ==
    IF v = "main" THEN <<succ, total, total>> ELSE <<total>>

\* The arguments of the last debug line: FINISHED=%v FAILED=%v TOTAL=%v in main.go,
\* FINISHED %v commands in part_000.
SummaryLine(v, succ, total) ==
    IF v = "main" THEN <<succ, total - succ, total>> ELSE <<total>>

\* The receive loop is over: debug(...), and main returns, which ends the process.
Report ==
    /\ proc = "running" /\ mpc = "wait" /\ ~Waiting(left, numCommands)
    /\ summary' = SummaryLine(variant, numSuccessful, numCommands)
    /\ mpc' = "done"
    /\ proc' = "exited"
    /\ UNCHANGED <<inputVars, commands, hosts, mi, numCommands, numSuccessful, left,
                   dpc, order, pos, attempts, path, fs, tried, renames, sent>>

----------------------------------------------------------------------------
\* dispatch(id, command, hosts, doneChan)

\* order := rand.Perm(len(hosts)); attempts := 0
Start(c) ==
    /\ proc = "running" /\ dpc[c] = "start"
    /\ \E o \in Perm(Len(hosts)) : order' = [order EXCEPT ![c] = o]
    /\ attempts' = [attempts EXCEPT ![c] = 0]
    /\ pos' = [pos EXCEPT ![c] = 0]
    /\ dpc' = [dpc EXCEPT ![c] = "loop"]
    /\ UNCHANGED <<inputVars, proc, mainVars, path, fs, tried, renames, sent>>

\* for i := range order: the index of the iteration taken for its value.
RangeIndex(o, k) == k

\* for _, i := range order: the k-th iteration binds i to the k-th value of order.
RangeValue(o, k) == o[k + 1]

\* The value of attempts after naming an attempt file: attempts++ in main.go;
\* part_000 has no such statement.
NextAttempts(v, n) == IF v = "main" THEN n + 1 ELSE n

\* The creation error logged and the range loop going on.
CreateErrorLogged == "loop"

\* if err != nil { panic(err) }: dispatch goes into the panic call.
AfterCreateError == "panic"

\* One more element of order: host := hosts[i]; attemptOutputPath := Sprintf(...);
\* attempts++; outf, err := os.Create(attemptOutputPath).  With the file created,
\* tryCommand starts ssh with the file as its stdout and stderr.
Create(c) ==
    /\ proc = "running" /\ dpc[c] = "loop" /\ pos[c] < Len(order[c])
    /\ LET i == RangeValue(order[c], pos[c])
           host == hosts[i + 1]
           p == AttemptPath(variant, c, attempts[c])
       IN
        /\ path' = [path EXCEPT ![c] = p]
        /\ attempts' = [attempts EXCEPT ![c] = NextAttempts(variant, @)]
        /\ pos' = [pos EXCEPT ![c] = @ + 1]
        /\ \E created \in BOOLEAN :
            IF created
            THEN /\ fs' = CreateFile(fs, p)
                 /\ tried' = [tried EXCEPT ![c] = Append(@,
                        [host |-> host, index |-> i, seq |-> attempts[c],
                         path |-> p, outcome |-> "running", written |-> 0])]
                 /\ dpc' = [dpc EXCEPT ![c] = "exec"]
            ELSE /\ tried' = [tried EXCEPT ![c] = Append(@,
                        [host |-> host, index |-> i, seq |-> attempts[c],
                         path |-> p, outcome |-> "uncreated", written |-> 0])]
                 /\ dpc' = [dpc EXCEPT ![c] = AfterCreateError]
                 /\ fs' = fs
    /\ UNCHANGED <<inputVars, proc, mainVars, order, renames, sent>>

\* The creation error answered by a quiet exit of the process.
CreateErrorExit == "exited"

\* What panic(err) does to the process: an unrecovered panic of any goroutine ends
\* it, with no deferred call and no summary.
OnCreateError == "panicked"

\* panic(err) of dispatch c takes effect.  Between os.Create returning its error and
\* this step the other goroutines go on running.
Panic(c) ==
    /\ proc = "running" /\ dpc[c] = "panic"
    /\ proc' = OnCreateError
    /\ UNCHANGED <<inputVars, mainVars, dpc, order, pos, attempts, path, fs, tried,
                   renames, sent>>

\* The ssh that tryCommand started for the attempt of command c in flight writes one
\* more line to the attempt file.  It is a process of its own: it writes while
\* cmd.Run waits for it, and it may go on writing when the program has panicked.
RemoteOutput(c) ==
    /\ dpc[c] = "exec"
    /\ LET n == Len(tried[c])
           t == tried[c][n]
       IN
        /\ t.written < MaxOutput
        /\ fs' = WriteFile(fs, path[c], Output(c, t.host, n - 1, t.written + 1))
        /\ tried' = [tried EXCEPT ![c][n].written = @ + 1]
    /\ UNCHANGED <<inputVars, proc, mainVars, dpc, order, pos, attempts, path, renames,
                   sent>>

\* A success of tryCommand after which the range loop goes on.
AfterSuccessContinue(v) == "loop"

\* Where dispatch goes when tryCommand returned nil: main.go renames the attempt
\* file, part_000 sends true at once.
AfterSuccess(v) == IF v = "main" THEN "rename" ELSE "sendTrue"

\* An error of tryCommand that is logged without continue.
AfterFailureFallThrough(v) == AfterSuccess(v)

\* if err := tryCommand(...); err != nil { debug(...); continue }
AfterFailure(v) == "loop"

\* tryCommand(command, host, outf) returns: ssh has exited and cmd.Run returns nil
\* or an error; a non-nil error makes the loop continue.
TryCommand(c) ==
    /\ proc = "running" /\ dpc[c] = "exec"
    /\ LET n == Len(tried[c]) IN
       \E ok \in BOOLEAN :
        /\ tried' = [tried EXCEPT ![c][n].outcome = IF ok THEN "ok" ELSE "failed"]
        /\ dpc' = [dpc EXCEPT ![c] = IF ok THEN AfterSuccess(variant)
                                               ELSE AfterFailure(variant)]
    /\ UNCHANGED <<inputVars, proc, mainVars, order, pos, attempts, path, fs, renames,
                   sent>>

\* A failed rename reported as a failed command.
AfterRenameStrict(renamed) == IF renamed THEN "sendTrue" ELSE "sendFalse"

\* Whatever os.Rename returned, dispatch goes on to debug(SUCC) and doneChan <- true.
AfterRename(renamed) == "sendTrue"

\* os.Rename(attemptOutputPath, finalOutputPath); a failure is only logged.
Rename(c) ==
    /\ proc = "running" /\ dpc[c] = "rename"
    /\ \E renamed \in BOOLEAN :
        /\ fs' = IF renamed THEN RenameFile(fs, path[c], FinalPath(c)) ELSE fs
        /\ renames' = [renames EXCEPT ![c] = Append(@,
                [old |-> path[c], new |-> FinalPath(c), ok |-> renamed])]
        /\ dpc' = [dpc EXCEPT ![c] = AfterRename(renamed)]
    /\ UNCHANGED <<inputVars, proc, mainVars, order, pos, attempts, path, tried, sent>>

\* A loop that ends without a success reported as a success.
ExhaustSendsTrue(c) ==
    /\ proc = "running" /\ dpc[c] = "loop" /\ pos[c] = Len(order[c])
    /\ dpc' = [dpc EXCEPT ![c] = "sendTrue"]
    /\ UNCHANGED <<inputVars, proc, mainVars, order, pos, attempts, path, fs, tried,
                   renames, sent>>

\* A dispatch that leaves its loop without a success and returns without a send.
ExhaustSilent(c) ==
    /\ proc = "running" /\ dpc[c] = "loop" /\ pos[c] = Len(order[c])
    /\ dpc' = [dpc EXCEPT ![c] = "returned"]
    /\ UNCHANGED <<inputVars, proc, mainVars, order, pos, attempts, path, fs, tried,
                   renames, sent>>

\* The range loop is over (every host failed, or there is none): FAILED is logged.
Exhaust(c) ==
    /\ proc = "running" /\ dpc[c] = "loop" /\ pos[c] = Len(order[c])
    /\ dpc' = [dpc EXCEPT ![c] = "sendFalse"]
    /\ UNCHANGED <<inputVars, proc, mainVars, order, pos, attempts, path, fs, tried,
                   renames, sent>>

dispatch(c) ==
    \/ Start(c)
    \/ Create(c)
    \/ Panic(c)
    \/ TryCommand(c)
    \/ Rename(c)
    \/ Exhaust(c)

Next ==
    \/ Usage
    \/ ReadCommands
    \/ ReadHosts
    \/ Spawn
    \/ StartWait
    \/ Report
    \/ \E c \in Ids : Recv(c)
    \/ \E c \in Ids : dispatch(c)
    \/ \E c \in Ids : RemoteOutput(c)

Spec == Init /\ [][Next]_vars

\* part_000: dispatch has no rename step.
dispatchLegacy(c) ==
    \/ Start(c)
    \/ Create(c)
    \/ Panic(c)
    \/ TryCommand(c)
    \/ Exhaust(c)

NextLegacy ==
    \/ Usage
    \/ ReadCommands
    \/ ReadHosts
    \/ Spawn
    \/ StartWait
    \/ Report
    \/ \E c \in Ids : Recv(c)
    \/ \E c \in Ids : dispatchLegacy(c)
    \/ \E c \in Ids : RemoteOutput(c)

SpecLegacy == InitLegacy /\ [][NextLegacy]_vars

TypeOK ==
    /\ proc \in {"running", "exited", "panicked"}
    /\ mpc \in {"flags", "usage", "readHosts", "spawn", "wait", "done"}
    /\ \A c \in DOMAIN dpc :
        dpc[c] \in {"idle", "start", "loop", "exec", "panic", "rename", "sendTrue",
                    "sendFalse", "returned"}

----------------------------------------------------------------------------
\* Observations the properties are stated over.

\* main has read both files and reached the launch loop.
Launching == mpc \in {"spawn", "wait", "done"}

\* Some attempt of command c returned success.
Succeeded(c) == \E i \in 1..Len(tried[c]) : tried[c][i].outcome = "ok"

\* The attempt of command c that returned success (there is at most one).
SuccessOf(c) == CHOOSE i \in 1..Len(tried[c]) : tried[c][i].outcome = "ok"

\* dispatch c left its retry loop with every host of the pool tried and failed.
Exhausted(c) ==
    /\ dpc[c] \in {"sendFalse", "returned"}
    /\ Len(tried[c]) = Len(hosts)
    /\ \A i \in 1..Len(tried[c]) : tried[c][i].outcome = "failed"

\* The lines the i-th attempt of command c has written.
OutputOf(c, i) ==
    [k \in 1..tried[c][i].written |-> Output(c, tried[c][i].host, i - 1, k)]

\* The files of the working directory that this run made: those os.Create opened,
\* under the name they have now.  The others are as an earlier run left them.
NewFiles == {p \in DOMAIN fs : fs[p].from = "this run"}

\* The files this run made that carry an attempt name of command c.
AttemptArtifacts(c) ==
    {p \in NewFiles : \E n \in 0..(Len(hosts) + 1) : p = AttemptPath(variant, c, n)}

\* The files this run made that carry the final name of command c.
FinalArtifacts(c) == {p \in NewFiles : p = FinalPath(c)}

\* The file names command c has used so far.
PathsOf(c) ==
    {tried[c][i].path : i \in 1..Len(tried[c])}
        \cup {renames[c][i].new : i \in 1..Len(renames[c])}

RECURSIVE SumUpTo(_, _)
SumUpTo(f, n) == IF n = 0 THEN 0 ELSE f[n - 1] + SumUpTo(f, n - 1)

\* The number of values sent on doneChan so far.
TotalSent == SumUpTo([c \in Ids |-> Len(sent[c])], Len(commands))

\* The promotion of command c was made and succeeded.
Promoted(c) == \E i \in 1..Len(renames[c]) : renames[c][i].ok

\* The rename of command c was made and failed.
RenameFailed(c) == \E i \in 1..Len(renames[c]) : ~renames[c][i].ok

\* os.Create failed for an attempt of command c.
CreateFailed(c) == \E i \in 1..Len(tried[c]) : tried[c][i].outcome = "uncreated"

\* The dispatches that have left their retry loop.
PastLoop == {c \in Ids : dpc[c] \in {"sendTrue", "sendFalse", "returned"}}

\* The dispatches blocked in a send on doneChan.
Sending == {c \in Ids : dpc[c] \in {"sendTrue", "sendFalse"}}

----------------------------------------------------------------------------
\* Scheduling.  The Go scheduler runs every runnable goroutine eventually, an
\* ssh started by tryCommand exits eventually, and a send on doneChan completes
\* once main is receiving: every step of the program that stays possible is
\* eventually taken.  Nothing is assumed of how much an ssh writes.

CmdSlots == 0..(MaxCmds - 1)

Fairness ==
    /\ WF_vars(Usage)
    /\ WF_vars(ReadCommands)
    /\ WF_vars(ReadHosts)
    /\ WF_vars(Spawn)
    /\ WF_vars(StartWait)
    /\ WF_vars(Report)
    /\ \A c \in CmdSlots : WF_vars(c \in Ids /\ Recv(c))
    /\ \A c \in CmdSlots : WF_vars(c \in Ids /\ dispatch(c))

SpecFair == Spec /\ Fairness

----------------------------------------------------------------------------
\* C1: every command produces exactly one Completion Result: a dispatch never
\* sends twice, a dispatch that returned (after a success, after exhausting the
\* hosts, or with an empty pool) has sent exactly once, and when main is done
\* every command has sent exactly once.
C1_ExactlyOneResult ==
    /\ \A c \in Ids : Len(sent[c]) <= 1
    /\ \A c \in Ids : dpc[c] = "returned" => Len(sent[c]) = 1
    /\ mpc = "done" => \A c \in Ids : Len(sent[c]) = 1

C1_Witness ==
    /\ mpc = "done" /\ Len(commands) = 2 /\ Len(hosts) = 2
    /\ sent[0] = <<TRUE>> /\ sent[1] = <<FALSE>>

\* C2 as stated: a command one of whose attempts succeeded, once its dispatch has
\* passed the promotion, has its final artifact, holding the output of the
\* succeeding attempt, and its Completion Result is true.
C2_Original ==
    \A c \in Ids :
        Len(hosts) > 0 /\ Succeeded(c) /\ dpc[c] \in {"sendTrue", "returned"} =>
            /\ dpc[c] = "returned" => sent[c] = <<TRUE>>
            /\ FinalPath(c) \in DOMAIN fs
            /\ fs[FinalPath(c)].data = OutputOf(c, SuccessOf(c))

\* C2 amended: the Completion Result is true and the output of the succeeding
\* attempt is held by exactly one artifact of the command: the final artifact when
\* the rename succeeded (the attempt name is then gone), and otherwise the
\* attempt artifact, the final name then holding nothing of this run (it is free,
\* or holds what an earlier run left there).
C2_SuccessArtifact ==
    \A c \in Ids :
        Len(hosts) > 0 /\ Succeeded(c) /\ dpc[c] \in {"sendTrue", "returned"} =>
            LET k == SuccessOf(c) IN
            /\ dpc[c] = "returned" => sent[c] = <<TRUE>>
            /\ Promoted(c) =>
                /\ FinalArtifacts(c) = {FinalPath(c)}
                /\ fs[FinalPath(c)].data = OutputOf(c, k)
                /\ tried[c][k].path \notin DOMAIN fs
            /\ ~Promoted(c) =>
                /\ FinalArtifacts(c) = {}
                /\ FinalPath(c) \in DOMAIN fs => fs[FinalPath(c)] \in LeftoverFiles
                /\ tried[c][k].path \in DOMAIN fs
                /\ tried[c][k].path \in AttemptArtifacts(c)
                /\ fs[tried[c][k].path].data = OutputOf(c, k)

\* Command 0 succeeded without output and its rename failed, the final name still
\* holding the empty file of an earlier run; command 1 succeeded at its second
\* host and was promoted.
C2_Witness ==
    /\ Len(commands) = 2 /\ Len(hosts) = 2
    /\ dpc[0] = "returned" /\ Succeeded(0) /\ ~Promoted(0)
    /\ tried[0][Len(tried[0])].written = 0
    /\ FinalPath(0) \in DOMAIN fs /\ fs[FinalPath(0)].data = <<>>
    /\ dpc[1] = "returned" /\ Len(tried[1]) = 2 /\ Succeeded(1) /\ Promoted(1)
    /\ tried[1][2].written = 1

\* C3: a command all of whose hosts failed has a false Completion Result, no
\* promotion and no final artifact of this run, and as many attempt artifacts of
\* this run as the pool has hosts.
C3_AllFail ==
    \A c \in Ids :
        Exhausted(c) =>
            /\ dpc[c] = "returned" => sent[c] = <<FALSE>>
            /\ renames[c] = <<>>
            /\ FinalArtifacts(c) = {}
            /\ Cardinality(AttemptArtifacts(c)) = Len(hosts)

\* C4: the reported summary has succeeded + failed = total = len(commands), with
\* neither count negative.
C4_SummaryAddsUp ==
    Len(summary) = 3 =>
        /\ summary[1] + summary[2] = summary[3]
        /\ summary[3] = Len(commands)
        /\ summary[1] >= 0 /\ summary[2] >= 0

C4_Witness == summary = <<1, 1, 2>>

\* C5: the reported succeeded count is the number of commands one of whose
\* attempts succeeded, and the failed count the number of commands that
\* exhausted the pool, in whatever order the results were received.
C5_SummaryCounts ==
    Len(summary) = 3 =>
        /\ summary[1] = Cardinality({c \in Ids : Succeeded(c)})
        /\ summary[2] = Cardinality({c \in Ids : Exhausted(c)})

C5_Witness ==
    /\ Len(summary) = 3 /\ Len(commands) = 2
    /\ Succeeded(1) /\ Exhausted(0) /\ Len(tried[1]) = 2

\* C6: main reports only after it received exactly len(commands) results, every
\* command then being in a terminal state; it never receives more than that.
C6_ReportAfterAll ==
    /\ left <= Len(commands)
    /\ mpc = "wait" => left = TotalSent
    /\ summary # <<>> => mpc = "done"
    /\ mpc = "done" =>
        /\ left = Len(commands)
        /\ TotalSent = Len(commands)
        /\ \A c \in Ids : dpc[c] = "returned" /\ (Succeeded(c) \/ Exhausted(c))

C6_Witness ==
    /\ mpc = "done" /\ left = 2 /\ Len(hosts) = 1
    /\ Succeeded(0) /\ Exhausted(1)

\* C7: the attempt sequence numbers of a command are 0, 1, 2, ... in the order
\* its attempts begin: strictly increasing from 0, without gaps or reuse.
C7_SequenceNumbers ==
    \A c \in Ids : \A i \in 1..Len(tried[c]) : tried[c][i].seq = i - 1

\* C8 as stated: the order of a command is a permutation of the host pool, no host
\* is tried twice by one command, and a command that reports exhaustion has tried
\* every host of the pool.
C8_Original ==
    \A c \in Ids :
        /\ dpc[c] \notin {"idle", "start"} =>
            /\ Len(order[c]) = Len(hosts)
            /\ {order[c][i] : i \in 1..Len(order[c])} = 0..(Len(hosts) - 1)
        /\ \A i, j \in 1..Len(tried[c]) :
            i # j => tried[c][i].host # tried[c][j].host
        /\ dpc[c] = "sendFalse" \/ sent[c] = <<FALSE>> =>
            {tried[c][i].host : i \in 1..Len(tried[c])}
                = {hosts[i] : i \in 1..Len(hosts)}

\* C8 amended: the order of a command is a permutation of the entries of the host
\* pool, the lines of the hosts file: no entry is tried twice by one command, and a
\* command that reports exhaustion has tried every entry exactly once, so a host
\* that n lines name has been tried n times.
C8_Permutation ==
    \A c \in Ids :
        /\ dpc[c] \notin {"idle", "start"} =>
            /\ Len(order[c]) = Len(hosts)
            /\ {order[c][i] : i \in 1..Len(order[c])} = 0..(Len(hosts) - 1)
        /\ \A i, j \in 1..Len(tried[c]) :
            i # j => tried[c][i].index # tried[c][j].index
        /\ dpc[c] = "sendFalse" \/ sent[c] = <<FALSE>> =>
            /\ Len(tried[c]) = Len(hosts)
            /\ {tried[c][i].index : i \in 1..Len(tried[c])} = 0..(Len(hosts) - 1)
            /\ \A i \in 1..Len(hosts) :
                Cardinality({j \in 1..Len(tried[c]) : tried[c][j].host = hosts[i]})
                    = Cardinality({j \in 1..Len(hosts) : hosts[j] = hosts[i]})

\* Both lines of the pool name the same host; command 0 went through the two
\* lines in the order 1, 0 and reported exhaustion, command 1 is at its second.
C8_Witness ==
    /\ Len(hosts) = 2 /\ hosts[1] = hosts[2] /\ Len(commands) = 2
    /\ sent[0] = <<FALSE>> /\ order[0] = <<1, 0>>
    /\ Len(tried[1]) = 2 /\ order[1] = <<0, 1>>

\* C9: the file names of different commands are disjoint, and within one command
\* different attempts have different file names, so that no file is created or
\* written by two attempts.
C9_NoCollision ==
    /\ \A c, d \in Ids : c # d => PathsOf(c) \cap PathsOf(d) = {}
    /\ \A c \in Ids : \A i, j \in 1..Len(tried[c]) :
        i # j => tried[c][i].path # tried[c][j].path

\* C10: a command has at most one attempt in flight; an attempt begins only after
\* every earlier attempt of the command returned failure; and the attempts go
\* through the hosts in the order of the command's permutation.
C10_Sequential ==
    \A c \in Ids :
        /\ Cardinality({i \in 1..Len(tried[c]) : tried[c][i].outcome = "running"}) <= 1
        /\ \A i \in 1..(Len(tried[c]) - 1) : tried[c][i].outcome = "failed"
        /\ Len(tried[c]) <= Len(order[c])
        /\ \A i \in 1..Len(tried[c]) :
            /\ tried[c][i].index = order[c][i]
            /\ tried[c][i].host = hosts[order[c][i] + 1]

C10_Witness ==
    /\ Len(hosts) = 2 /\ Len(commands) = 2
    /\ order[0] = <<1, 0>> /\ Len(tried[0]) = 2
    /\ tried[0][1].outcome = "failed" /\ tried[0][2].outcome = "running"
    /\ dpc[1] = "exec"

\* C11: a command is promoted at most once, and only the artifact of an attempt
\* of that command that already returned success is renamed; the artifact of a
\* failed, running or uncreated attempt never is, and this run leaves a file under
\* the final name only by such a promotion.
C11_PromoteOnlySuccess ==
    \A c \in Ids :
        /\ Len(renames[c]) <= 1
        /\ \A r \in 1..Len(renames[c]) :
            /\ renames[c][r].new = FinalPath(c)
            /\ \E i \in 1..Len(tried[c]) :
                tried[c][i].path = renames[c][r].old /\ tried[c][i].outcome = "ok"
            /\ \A i \in 1..Len(tried[c]) :
                tried[c][i].outcome # "ok" => tried[c][i].path # renames[c][r].old
        /\ dpc[c] = "rename" => tried[c][Len(tried[c])].outcome = "ok"
        /\ FinalArtifacts(c) # {} => Promoted(c)

C11_Witness ==
    /\ Len(commands) = 2 /\ Len(hosts) = 2
    /\ Len(tried[0]) = 2 /\ tried[0][1].outcome = "failed" /\ Promoted(0)
    /\ dpc[1] = "exec"

\* A step by which dispatch c ends its rename step with os.Rename having failed.
RenameFailedStep(c) ==
    /\ dpc[c] = "rename" /\ dpc'[c] # "rename"
    /\ Len(renames'[c]) = 1 /\ ~renames'[c][1].ok

\* C12: a failed rename does not end the process and changes no file; afterwards
\* the final name of the command holds nothing of this run, its attempt artifact
\* is still there under its attempt name with the output, its Completion Result
\* is true, and the summary counts it as succeeded.
C12_RenameFailure ==
    /\ [][\A c \in Ids : RenameFailedStep(c) =>
            /\ proc' = "running" /\ fs' = fs
            /\ dpc'[c] = "sendTrue"]_vars
    /\ [](\A c \in Ids : RenameFailed(c) =>
            /\ FinalArtifacts(c) = {}
            /\ renames[c][1].old = AttemptPath(variant, c, Len(tried[c]) - 1)
            /\ renames[c][1].old \in DOMAIN fs
            /\ renames[c][1].old \in AttemptArtifacts(c)
            /\ fs[renames[c][1].old].data = OutputOf(c, Len(tried[c]))
            /\ dpc[c] \in {"sendTrue", "returned"}
            /\ dpc[c] = "returned" => sent[c] = <<TRUE>>)
    /\ [](Len(summary) = 3 =>
            summary[1] >= Cardinality({c \in Ids : RenameFailed(c)}))

C12_Witness ==
    /\ Len(commands) = 2 /\ summary = <<2, 0, 2>>
    /\ RenameFailed(0) /\ RenameFailed(1) /\ Len(tried[1]) = 2
    /\ tried[1][2].written = 1

\* C13: with an empty host pool no attempt is begun, every command sends false,
\* and the summary is 0 succeeded, all failed; and in a run whose hosts file is
\* empty no step creates, writes, renames or removes a file.
C13_EmptyPool ==
    /\ [](Launching /\ Len(hosts) = 0 =>
            /\ NewFiles = {}
            /\ \A c \in Ids :
                /\ tried[c] = <<>> /\ renames[c] = <<>>
                /\ dpc[c] \in {"idle", "start", "loop", "sendFalse", "returned"}
                /\ dpc[c] = "returned" => sent[c] = <<FALSE>>
            /\ summary # <<>> => summary = <<0, Len(commands), Len(commands)>>
            /\ proc # "panicked")
    /\ [][Len(hostsFile) = 0 => fs' = fs]_vars

\* One command, no host, over the attempt file of an earlier run, which stays.
C13_Witness ==
    /\ Len(hostsFile) = 0 /\ Len(commands) = 1
    /\ summary = <<0, 1, 1>> /\ sent[0] = <<FALSE>>
    /\ AttemptPath(variant, 0, 0) \in DOMAIN fs

\* The number of attempts each command has begun.
Begun == [c \in Ids |-> Len(tried[c])]

\* C14 as stated: from the failure of an os.Create on, no dispatch begins a further
\* attempt, renames or sends a result, and no summary is reported.
C14_Original ==
    [][(\E c \in Ids : CreateFailed(c)) =>
            /\ Begun' = Begun /\ renames' = renames /\ sent' = sent
            /\ summary' = summary]_vars

\* C14 amended: the dispatch whose os.Create failed does nothing more (no further
\* attempt, no rename, no result), so that main never receives all results and no
\* summary is ever reported; the process ends by the panic, which follows; and
\* once it has ended no attempt is begun, no file is created or renamed, no result
\* is sent or received.  Between the failure and the end of the process the other
\* dispatches go on.
C14_CreateFailureFatal ==
    /\ [](\A c \in Ids : CreateFailed(c) =>
            /\ dpc[c] = "panic"
            /\ tried[c][Len(tried[c])].outcome = "uncreated"
            /\ \A i \in 1..(Len(tried[c]) - 1) : tried[c][i].outcome = "failed"
            /\ renames[c] = <<>> /\ sent[c] = <<>>)
    /\ []((\E c \in Ids : CreateFailed(c)) =>
            summary = <<>> /\ mpc # "done" /\ proc # "exited")
    /\ [][proc = "panicked" =>
            /\ proc' = "panicked"
            /\ Begun' = Begun /\ DOMAIN fs' = DOMAIN fs
            /\ UNCHANGED <<renames, sent, left, summary, dpc, mpc>>]_vars
    /\ (\E c \in Ids : CreateFailed(c)) ~> (proc = "panicked")

\* The process has ended by the panic of command 0, whose second os.Create failed;
\* command 1 has its first attempt in flight, with output.
C14_Witness ==
    /\ Len(commands) = 2 /\ Len(hosts) = 2
    /\ proc = "panicked"
    /\ Len(tried[0]) = 2 /\ CreateFailed(0)
    /\ dpc[1] = "exec" /\ tried[1][1].written = 1 /\ left = 0

\* C15 as stated: in a run that reached the launch of the commands, whenever the
\* process has ended, the summary was reported.
C15_Original == Launching /\ proc # "running" => summary # <<>>

\* C15 amended: once main has reached the launch of the commands, the process ends
\* either by main returning, which happens only after all len(commands) results
\* were received and the summary reported, or by the panic of a failed os.Create,
\* and in no other way; the ends before the launch (help, an unreadable file)
\* come before any dispatch exists.
C15_ExitAfterSummary ==
    /\ Launching /\ proc = "exited" =>
        /\ mpc = "done" /\ summary # <<>>
        /\ left = Len(commands) /\ TotalSent = Len(commands)
    /\ Launching /\ proc = "panicked" => \E c \in Ids : CreateFailed(c)
    /\ ~Launching =>
        /\ mi = 0 /\ summary = <<>> /\ NewFiles = {}
        /\ \A c \in DOMAIN dpc : dpc[c] = "idle"
    /\ proc = "running" => summary = <<>>

C15_Witness ==
    /\ proc = "exited" /\ mpc = "done" /\ Len(commands) = 2 /\ Len(hosts) = 2
    /\ summary = <<1, 1, 2>> /\ left = 2

\* C16: the artifact of a failed attempt stays in the working directory under its
\* attempt name, holding exactly the output that attempt wrote.
C16_FailedArtifactsPersist ==
    \A c \in Ids : \A i \in 1..Len(tried[c]) :
        tried[c][i].outcome = "failed" =>
            /\ tried[c][i].path \in DOMAIN fs
            /\ fs[tried[c][i].path].data = OutputOf(c, i)

\* Every command reached its terminal state and had its result received, and
\* main reported the summary.
AllDone ==
    /\ mpc = "done" /\ summary # <<>>
    /\ \A c \in Ids : dpc[c] = "returned" /\ Len(sent[c]) = 1
                      /\ (Succeeded(c) \/ Exhausted(c))

\* C17: in a fair run that is not asked for help, in which both files are read and
\* every os.Create succeeds, every command eventually reaches its terminal state,
\* every result is eventually received and main eventually reports the summary;
\* and while the process runs some step is always possible.
C17_Liveness ==
    /\ (args = <<>> /\ [](proc # "panicked")) => <>AllDone
    /\ [](proc = "running" => ENABLED Next)

C17_Witness ==
    /\ AllDone /\ Len(commands) = 2 /\ Len(hosts) = 2
    /\ Exhausted(0) /\ Len(tried[1]) = 2 /\ Succeeded(1)

\* C18: the successful attempt of a command is its last one: its number is the
\* position in the command's order of the first host that succeeded, no attempt
\* and no attempt artifact follows it, and false is sent only when the host at
\* the last position of the order has failed, as all before it.
C18_StopAtFirstSuccess ==
    \A c \in Ids :
        /\ Succeeded(c) =>
            /\ SuccessOf(c) = Len(tried[c])
            /\ tried[c][Len(tried[c])].index = order[c][Len(tried[c])]
            /\ \A i \in 1..(Len(tried[c]) - 1) : tried[c][i].outcome = "failed"
            /\ Cardinality(AttemptArtifacts(c) \cup FinalArtifacts(c)) = Len(tried[c])
            /\ dpc[c] \in {"rename", "sendTrue", "returned"}
        /\ dpc[c] = "sendFalse" \/ sent[c] = <<FALSE>> =>
            /\ Len(tried[c]) = Len(order[c])
            /\ \A i \in 1..Len(tried[c]) : tried[c][i].outcome = "failed"
            /\ Len(order[c]) > 0 =>
                tried[c][Len(tried[c])].index = order[c][Len(order[c])]

\* Command 0 succeeded at the first host of its order and returned with the second
\* host untried; command 1 sent false after both.
C18_Witness ==
    /\ Len(commands) = 2 /\ Len(hosts) = 2
    /\ dpc[0] = "returned" /\ Len(tried[0]) = 1 /\ Succeeded(0) /\ order[0] = <<1, 0>>
    /\ sent[1] = <<FALSE>> /\ Len(tried[1]) = 2

\* C19: nothing a command does waits for another command: while the process runs,
\* main can launch the next command whatever the launched ones are doing, a
\* launched dispatch can take its next step (draw its order, begin an attempt,
\* see its ssh end, rename, leave the loop) whatever the others are doing, and a
\* dispatch with a result can hand it over as soon as main is receiving.
C19_NoAdmissionControl ==
    proc = "running" =>
        /\ mpc = "spawn" /\ mi < Len(commands) => ENABLED Spawn
        /\ mpc = "spawn" /\ mi = Len(commands) => ENABLED StartWait
        /\ \A c \in Ids :
            /\ dpc[c] \in {"start", "loop", "exec", "rename"} => ENABLED dispatch(c)
            /\ dpc[c] = "loop" /\ pos[c] < Len(order[c]) => ENABLED Create(c)
            /\ dpc[c] = "exec" => ENABLED TryCommand(c)
            /\ dpc[c] \in {"sendTrue", "sendFalse"} /\ mpc = "wait" => ENABLED Recv(c)

\* Every dispatch has its first attempt in flight at the same time.
C19_Witness ==
    /\ Len(commands) = MaxCmds
    /\ \A c \in Ids : dpc[c] = "exec" /\ Len(tried[c]) = 1
    /\ left = 0

\* C20: the results received are as many as the results sent, which are the
\* dispatches that returned: at most the dispatches past their loop, at most
\* len(commands); once main received len(commands) results no dispatch is blocked
\* in a send.
C20_ChannelAccounting ==
    /\ left = TotalSent
    /\ left = Cardinality({c \in Ids : dpc[c] = "returned"})
    /\ left <= Cardinality(PastLoop)
    /\ Cardinality(PastLoop) <= Len(commands)
    /\ mpc \in {"wait", "done"} /\ left = numCommands => Sending = {}

C20_Witness ==
    /\ Len(commands) = 2 /\ mpc = "wait" /\ left = 1
    /\ dpc[0] = "sendTrue" /\ dpc[1] = "returned"

====
